---- MODULE Spec2Model ----
(***************************************************************************)
(* Model of the blinkrs crate: the Message encoder (src/message.rs) and    *)
(* Blinkers::send (src/lib.rs).                                            *)
(*                                                                         *)
(* A buffer [u8; 8] is a sequence of length 8; Rust index i is TLA+ index  *)
(* i + 1.  A Duration is represented by its as_millis() value.             *)
(***************************************************************************)
EXTENDS Integers, Sequences, FiniteSets

VARIABLES
  message,   \* the Message a caller has built (NoMessage before)
  buf,       \* what message.buffer() returned (<<>> before the call)
  cmd,       \* Blinkers::send: the parameter cmd
  bus,       \* the USB devices the context enumerates, in order
  devices,   \* Blinkers::send: the result of self.context.devices()
  pc,        \* Blinkers::send: "start", "iter" (in the iterator chain), "done"
  pos,       \* index of the device the iterator chain looks at next
  written,   \* the Vec<usize> collect has gathered so far
  results,   \* per device: the value of send(&d, &cmd) and the call that ended it
  received,  \* per device: the frame a successful write_control delivered
  ret        \* Blinkers::send: the value returned

vars == <<message, buf, cmd, bus, devices, pc, pos, written, results, received, ret>>

encVars == <<message, buf>>
sendVars == <<cmd, bus, devices, pc, pos, written, results, received, ret>>

(***************************************************************************)
(* Bounds and input samples                                                *)
(***************************************************************************)
\* each window of tick counts is base .. base + TickSpan
TickSpan == 4

\* number of USB devices on the bus
MaxDevices == 3

\* first tick count of each window: around 0, 10 (100 ms), 255, 510,
\* 2^16 - 1 and 2^17 - 1
TickBases == {0, 8, 253, 508, 65533, 131069}

\* milliseconds past a whole tick
SubTickMs == {0, 5, 9}

TickSamples == UNION {{base + i : i \in 0..TickSpan} : base \in TickBases}

Durations == {10 * t + r : t \in TickSamples, r \in SubTickMs}

ChannelSamples == {0, 30, 255}

ByteSamples == {0, 3, 5, 255}

ColorNames == {"red", "green", "blue", "off", "", "no-such-color"}

(***************************************************************************)
(* Color (color.rs)                                                        *)
(***************************************************************************)
Three(r, g, b) == [tag |-> "Three", r |-> r, g |-> g, b |-> b]

Named(name) == [tag |-> "Named", name |-> name]

RecognizedNames == {"red", "green", "blue", "off"}

ColorFrom(input) ==
  IF input \in RecognizedNames THEN Named(input) ELSE Three(0, 0, 0)

rgb(color) ==
  CASE color.tag = "Three" -> <<color.r, color.g, color.b>>
    [] color.tag = "Named" /\ color.name = "red" -> <<255, 0, 0>>
    [] color.tag = "Named" /\ color.name = "green" -> <<0, 255, 0>>
    [] color.tag = "Named" /\ color.name = "blue" -> <<0, 0, 255>>
    [] color.tag = "Named" /\ color.name = "off" -> <<0, 0, 0>>

FADE_COMMAND_ACTION == 99

IMMEDIATE_COMMAND_ACTION == 110

Colors ==
  {Three(r, g, b) : r \in ChannelSamples, g \in ChannelSamples, b \in ChannelSamples}
    \cup {Three(10, 20, 30)}
    \cup {ColorFrom(n) : n \in ColorNames}

(***************************************************************************)
(* LedNum                                                                  *)
(***************************************************************************)
LedNum == {"All", "Led1", "Led2"}

as_u8_collide(ledn) ==
  CASE ledn = "All" -> 0
    [] ledn = "Led1" -> 1
    [] ledn = "Led2" -> 1

as_u8(ledn) ==
  CASE ledn = "All" -> 0
    [] ledn = "Led1" -> 1
    [] ledn = "Led2" -> 2

(***************************************************************************)
(* Message                                                                 *)
(***************************************************************************)
NoMessage == [tag |-> "None"]

Off == [tag |-> "Off"]

Fade(color, duration, ledn) ==
  [tag |-> "Fade", color |-> color, duration |-> duration, ledn |-> ledn]

Immediate(color) == [tag |-> "Immediate", color |-> color]

SetLinePattern(color, duration, p) ==
  [tag |-> "SetLinePattern", color |-> color, duration |-> duration, pos |-> p]

SetLedNum(ledn) == [tag |-> "SetLedNum", ledn |-> ledn]

PlayLoop(on, start_pos, end_pos, loop_count) ==
  [tag |-> "PlayLoop", on |-> on, start_pos |-> start_pos,
   end_pos |-> end_pos, loop_count |-> loop_count]

(***************************************************************************)
(* Integer helpers of the duration packing.  None is the Option::None of   *)
(* the checked operations.                                                 *)
(***************************************************************************)
None == -1

checked_div(a, b) == IF b = 0 THEN None ELSE a \div b

\* u16::checked_shr: None when the shift is at least the width
checked_shr(a, n) == IF n >= 16 THEN None ELSE a \div (2 ^ n)

checked_rem(a, b) == IF b = 0 THEN None ELSE a % b

unwrap_or(x, default) == IF x = None THEN default ELSE x

as_u16(x) == x % 65536

as_u8_cast(x) == x % 256

dms_unbounded(duration) == unwrap_or(checked_div(duration, 10), 0)

dms_saturating(duration) ==
  IF unwrap_or(checked_div(duration, 10), 0) > 65535
    THEN 0
    ELSE unwrap_or(checked_div(duration, 10), 0)

\* let dms = duration.as_millis().checked_div(10).unwrap_or(0) as u16;
dms(duration) == as_u16(unwrap_or(checked_div(duration, 10), 0))

\* let th = dms.checked_shr(8).unwrap_or(0) as u8;
th(d) == as_u8_cast(unwrap_or(checked_shr(d, 8), 0))

tl_rem256(d) == as_u8_cast(unwrap_or(checked_rem(d, 256), 0))

\* let tl = dms.checked_rem(0xff).unwrap_or(0) as u8;
tl(d) == as_u8_cast(unwrap_or(checked_rem(d, 255), 0))

(***************************************************************************)
(* Message::buffer, one operator per match arm                             *)
(***************************************************************************)
buffer_Fade_swapped(color, duration, ledn) ==
  <<1, FADE_COMMAND_ACTION, rgb(color)[1], rgb(color)[2], rgb(color)[3],
    tl(dms(duration)), th(dms(duration)), as_u8(ledn)>>

buffer_Fade(color, duration, ledn) ==
  <<1, FADE_COMMAND_ACTION, rgb(color)[1], rgb(color)[2], rgb(color)[3],
    th(dms(duration)), tl(dms(duration)), as_u8(ledn)>>

buffer_Immediate_gr(color) ==
  <<1, IMMEDIATE_COMMAND_ACTION, rgb(color)[2], rgb(color)[1], rgb(color)[3],
    0, 0, 0>>

buffer_Immediate(color) ==
  <<1, IMMEDIATE_COMMAND_ACTION, rgb(color)[1], rgb(color)[2], rgb(color)[3],
    0, 0, 0>>

buffer_Off_opcode == <<1, 111, 0, 0, 0, 0, 0, 0>>

buffer_Off == buffer_Immediate(Three(0, 0, 0))

\* a checked conversion of the tick count that panics when it does not fit
Panic == <<"panic">>

buffer_SetLinePattern_try_from(color, duration, p) ==
  IF unwrap_or(checked_div(duration, 10), 0) > 65535
    THEN Panic
    ELSE <<1, 80, rgb(color)[1], rgb(color)[2], rgb(color)[3],
           th(dms(duration)), tl(dms(duration)), p>>

buffer_SetLinePattern_81(color, duration, p) ==
  <<1, 81, rgb(color)[1], rgb(color)[2], rgb(color)[3],
    th(dms(duration)), tl(dms(duration)), p>>

buffer_SetLinePattern(color, duration, p) ==
  <<1, 80, rgb(color)[1], rgb(color)[2], rgb(color)[3],
    th(dms(duration)), tl(dms(duration)), p>>

buffer_SetLedNum(ledn) == <<1, 108, as_u8(ledn), 0, 0, 0, 0, 0>>

buffer_PlayLoop_inverted(on, start_pos, end_pos, loop_count) ==
  <<1, 112, IF on THEN 0 ELSE 1, start_pos, end_pos, loop_count, 0, 0>>

buffer_PlayLoop(on, start_pos, end_pos, loop_count) ==
  <<1, 112, IF on THEN 1 ELSE 0, start_pos, end_pos, loop_count, 0, 0>>

buffer(self) ==
  CASE self.tag = "Off" -> buffer_Off
    [] self.tag = "Fade" -> buffer_Fade(self.color, self.duration, self.ledn)
    [] self.tag = "Immediate" -> buffer_Immediate(self.color)
    [] self.tag = "SetLinePattern" ->
         buffer_SetLinePattern(self.color, self.duration, self.pos)
    [] self.tag = "SetLedNum" -> buffer_SetLedNum(self.ledn)
    [] self.tag = "PlayLoop" ->
         buffer_PlayLoop(self.on, self.start_pos, self.end_pos, self.loop_count)

\* impl From<&str> for Message
MessageFrom(input) == Immediate(ColorFrom(input))

(***************************************************************************)
(* Encoder specification: a caller builds a Message and encodes it         *)
(***************************************************************************)
NewOff ==
  /\ message = NoMessage
  /\ message' = Off
  /\ buf' = <<>>
  /\ UNCHANGED sendVars

NewFade ==
  /\ message = NoMessage
  /\ \E color \in Colors, duration \in Durations, ledn \in LedNum :
       message' = Fade(color, duration, ledn)
  /\ buf' = <<>>
  /\ UNCHANGED sendVars

NewImmediate ==
  /\ message = NoMessage
  /\ \E color \in Colors : message' = Immediate(color)
  /\ buf' = <<>>
  /\ UNCHANGED sendVars

NewSetLinePattern ==
  /\ message = NoMessage
  /\ \E color \in Colors, duration \in Durations, p \in ByteSamples :
       message' = SetLinePattern(color, duration, p)
  /\ buf' = <<>>
  /\ UNCHANGED sendVars

NewSetLedNum ==
  /\ message = NoMessage
  /\ \E ledn \in LedNum : message' = SetLedNum(ledn)
  /\ buf' = <<>>
  /\ UNCHANGED sendVars

NewPlayLoop ==
  /\ message = NoMessage
  /\ \E on \in BOOLEAN, start_pos \in ByteSamples, end_pos \in ByteSamples,
        loop_count \in ByteSamples :
       message' = PlayLoop(on, start_pos, end_pos, loop_count)
  /\ buf' = <<>>
  /\ UNCHANGED sendVars

FromStr ==
  /\ message = NoMessage
  /\ \E input \in ColorNames : message' = MessageFrom(input)
  /\ buf' = <<>>
  /\ UNCHANGED sendVars

Buffer ==
  /\ message # NoMessage
  /\ buf = <<>>
  /\ buf' = buffer(message)
  /\ UNCHANGED message
  /\ UNCHANGED sendVars

SendIdle ==
  /\ cmd = NoMessage
  /\ bus = <<>>
  /\ devices = [tag |-> "None"]
  /\ pc = "idle"
  /\ pos = 1
  /\ written = <<>>
  /\ results = <<>>
  /\ received = <<>>
  /\ ret = [tag |-> "None"]

Init ==
  /\ message = NoMessage
  /\ buf = <<>>
  /\ SendIdle

Next ==
  \/ NewOff
  \/ NewFade
  \/ NewImmediate
  \/ NewSetLinePattern
  \/ NewSetLedNum
  \/ NewPlayLoop
  \/ FromStr
  \/ Buffer

Spec == Init /\ [][Next]_vars

(***************************************************************************)
(* Properties of the encoder, checked under Spec                           *)
(***************************************************************************)
Encoded == buf # <<>>

Timed == Encoded /\ message.tag \in {"Fade", "SetLinePattern"}

Ticks == message.duration \div 10

\* C1: for every variant and every field value, buffer returns exactly 8
\* bytes, byte 0 is 0x01 and byte 1 is the opcode of the variant: 0x6e for
\* Immediate and Off, 0x63 for Fade, 0x50 for SetLinePattern, 0x6c for
\* SetLedNum, 0x70 for PlayLoop.
C1_Header ==
  Encoded =>
    /\ Len(buf) = 8
    /\ \A i \in 1..8 : buf[i] \in 0..255
    /\ buf[1] = 1
    /\ buf[2] = CASE message.tag = "Immediate" -> 110
                  [] message.tag = "Off" -> 110
                  [] message.tag = "Fade" -> 99
                  [] message.tag = "SetLinePattern" -> 80
                  [] message.tag = "SetLedNum" -> 108
                  [] message.tag = "PlayLoop" -> 112

C1_Witness ==
  /\ message.tag = "SetLinePattern"
  /\ message.duration = 655379
  /\ Encoded
  /\ buf[1] = 1
  /\ buf[2] = 80

\* C2: the encoding of Off is byte for byte the encoding of Immediate with
\* RGB (0,0,0), which is also the encoding of the message built from the
\* color name "off"; bytes 2..5 are (0,0,0), the bytes after them are zero,
\* and byte 1 is the Immediate opcode.
C2_OffIsImmediateBlack ==
  (Encoded /\ message = Off) =>
    /\ buf = buffer(Immediate(Three(0, 0, 0)))
    /\ buf = buffer(MessageFrom("off"))
    /\ <<buf[3], buf[4], buf[5]>> = <<0, 0, 0>>
    /\ <<buf[6], buf[7], buf[8]>> = <<0, 0, 0>>
    /\ buf[2] = 110

C2_Witness == message = Off /\ buf = <<1, 110, 0, 0, 0, 0, 0, 0>>

C3_Canonical(name) ==
  CASE name = "red" -> <<255, 0, 0>>
    [] name = "green" -> <<0, 255, 0>>
    [] name = "blue" -> <<0, 0, 255>>
    [] name = "off" -> <<0, 0, 0>>

\* C3: for every recognized color name, Message::from(name) is an Immediate
\* command whose buffer bytes 2..5 are the canonical RGB triple of the name.
C3_NamedColorBytes ==
  \A name \in {"red", "green", "blue", "off"} :
    (Encoded /\ message = MessageFrom(name)) =>
      /\ message.tag = "Immediate"
      /\ <<buf[3], buf[4], buf[5]>> = C3_Canonical(name)

C3_Witness ==
  /\ message = MessageFrom("green")
  /\ buf = <<1, 110, 0, 255, 0, 0, 0, 0>>

\* C4: when the tick count floor(duration_ms / 10) fits in 16 bits, Fade
\* encodes as [0x01, 0x63, R, G, B, ticks >> 8, ticks % 255, as_u8(led)] and
\* SetLinePattern as [0x01, 0x50, R, G, B, ticks >> 8, ticks % 255, pos];
\* Fade(rgb(10,20,30), 100 ms, Led1) encodes as [1, 0x63, 10, 20, 30, 0, 10, 1].
C4_TimedLayout ==
  /\ (Timed /\ Ticks < 65536 /\ message.tag = "Fade") =>
       buf = <<1, 99, rgb(message.color)[1], rgb(message.color)[2],
               rgb(message.color)[3], Ticks \div 256, Ticks % 255,
               CASE message.ledn = "All" -> 0
                 [] message.ledn = "Led1" -> 1
                 [] message.ledn = "Led2" -> 2>>
  /\ (Timed /\ Ticks < 65536 /\ message.tag = "SetLinePattern") =>
       buf = <<1, 80, rgb(message.color)[1], rgb(message.color)[2],
               rgb(message.color)[3], Ticks \div 256, Ticks % 255,
               message.pos>>
  /\ (Encoded /\ message = Fade(Three(10, 20, 30), 100, "Led1")) =>
       buf = <<1, 99, 10, 20, 30, 0, 10, 1>>

C4_Witness ==
  /\ message = Fade(Three(10, 20, 30), 100, "Led1")
  /\ buf = <<1, 99, 10, 20, 30, 0, 10, 1>>

\* C5: for Fade and SetLinePattern and every duration, 0 and tick counts
\* beyond 16 bits included, the encoding does not fail and time_hi and
\* time_lo lie in 0..255; a duration of 0 ms gives time_hi = 0, time_lo = 0.
C5_TimeBytesTotal ==
  Timed =>
    /\ Len(buf) = 8
    /\ buf[6] \in 0..255
    /\ buf[7] \in 0..255
    /\ (message.duration = 0 => buf[6] = 0 /\ buf[7] = 0)

C5_Witness ==
  /\ Timed
  /\ message.tag = "SetLinePattern"
  /\ Ticks = 131071
  /\ buf[6] = 255
  /\ buf[7] = 0

\* C6 as stated: when the tick count does not fit in 16 bits the tick value
\* used is 0, so time_hi and time_lo are both 0.
C6_OverflowYieldsZero ==
  (Timed /\ Ticks > 65535) => (buf[6] = 0 /\ buf[7] = 0)

\* C6 amended: when the tick count does not fit in 16 bits no error is
\* raised and the tick value used is the tick count modulo 65536: time_hi is
\* its high byte and time_lo its remainder modulo 255.
C6_OverflowWraps ==
  (Timed /\ Ticks > 65535) =>
    /\ Len(buf) = 8
    /\ buf[6] = (Ticks % 65536) \div 256
    /\ buf[7] = ((Ticks % 65536) % 255)

C6_Witness ==
  /\ Timed
  /\ message.tag = "Fade"
  /\ message.duration = 655370
  /\ buf[6] = 0
  /\ buf[7] = 1

\* C7: PlayLoop{on, start_pos, end_pos, loop_count} encodes as
\* [0x01, 0x70, on_byte, start_pos, end_pos, loop_count, 0, 0] with on_byte 1
\* for on = true and 0 for on = false; PlayLoop{true, 0, 5, 3} encodes as
\* [0x01, 0x70, 1, 0, 5, 3, 0, 0].
C7_PlayLoopLayout ==
  /\ (Encoded /\ message.tag = "PlayLoop") =>
       buf = <<1, 112, IF message.on THEN 1 ELSE 0, message.start_pos,
               message.end_pos, message.loop_count, 0, 0>>
  /\ (Encoded /\ message = PlayLoop(TRUE, 0, 5, 3)) =>
       buf = <<1, 112, 1, 0, 5, 3, 0, 0>>

C7_Witness ==
  /\ message = PlayLoop(TRUE, 0, 5, 3)
  /\ buf = <<1, 112, 1, 0, 5, 3, 0, 0>>

\* C8: as_u8 is a bijection between {All, Led1, Led2} and {0, 1, 2} with
\* All to 0, Led1 to 1, Led2 to 2; SetLedNum(led) encodes as
\* [0x01, 0x6c, as_u8(led), 0, 0, 0, 0, 0], and another LedNum gives another
\* buffer.
C8_LedNumBijection ==
  (Encoded /\ message.tag = "SetLedNum") =>
    /\ buf = <<1, 108, CASE message.ledn = "All" -> 0
                         [] message.ledn = "Led1" -> 1
                         [] message.ledn = "Led2" -> 2, 0, 0, 0, 0, 0>>
    /\ buf[3] = as_u8(message.ledn)
    /\ {as_u8(l) : l \in LedNum} = {0, 1, 2}
    /\ \A l \in LedNum :
         l # message.ledn =>
           /\ as_u8(l) # as_u8(message.ledn)
           /\ buffer(SetLedNum(l)) # buf

C8_Witness ==
  /\ message = SetLedNum("Led2")
  /\ buf = <<1, 108, 2, 0, 0, 0, 0, 0>>

\* C10: for Fade and SetLinePattern and every duration below 2550 ms the
\* time bytes carry the tick count exactly (time_hi = 0, time_lo = ticks,
\* time_hi * 256 + time_lo = ticks); for every duration time_lo is in 0..254.
C10_SmallTicksExact ==
  Timed =>
    /\ message.duration < 2550 =>
         /\ buf[6] = 0
         /\ buf[7] = Ticks
         /\ buf[6] * 256 + buf[7] = Ticks
    /\ buf[7] \in 0..254

C10_Witness ==
  /\ Timed
  /\ message.duration = 2549
  /\ buf[6] = 0
  /\ buf[7] = 254

(***************************************************************************)
(* Blinkers::send (lib.rs).  bus is the list of USB devices the context    *)
(* enumerates; the outcome of each rusb call is chosen by the environment. *)
(***************************************************************************)
PRODUCT_ID == "PRODUCT_ID"

VENDOR_ID == "VENDOR_ID"

RusbErrors == {"Io", "Access"}

\* what rusb reports as written by a successful write_control of 8 bytes
WriteSizes == {7, 8}

DeviceProfiles ==
  {[descriptor |-> "Err"],
   [descriptor |-> "Ok", num_configurations |-> 0,
    product_id |-> PRODUCT_ID, vendor_id |-> VENDOR_ID],
   [descriptor |-> "Ok", num_configurations |-> 1,
    product_id |-> "other", vendor_id |-> VENDOR_ID],
   [descriptor |-> "Ok", num_configurations |-> 1,
    product_id |-> PRODUCT_ID, vendor_id |-> "other"],
   [descriptor |-> "Ok", num_configurations |-> 1,
    product_id |-> PRODUCT_ID, vendor_id |-> VENDOR_ID]}

SendCommands ==
  {Off, Fade(Three(10, 20, 30), 100, "Led1"), PlayLoop(TRUE, 0, 5, 3)}

Ok(n) == [tag |-> "Ok", n |-> n]

Err(e) == [tag |-> "Err", err |-> e]

NotCalled == [tag |-> "NotCalled"]

NotFound == [tag |-> "NotFound"]

\* impl From<rusb::Error> for BlinkError
BlinkErrorFrom(error) == [tag |-> "DeviceListError", error |-> error]

is_blinker(device) ==
  IF device.descriptor = "Ok"
    THEN /\ device.num_configurations > 0
         /\ device.product_id = PRODUCT_ID
         /\ device.vendor_id = VENDOR_ID
    ELSE FALSE

\* fn send: the outcomes of one call, each with the stage that ended it and
\* the frame write_control delivered (<<>> when it delivered none)
send(device, msg) ==
  {[res |-> Err(BlinkErrorFrom(e)), stage |-> st, frame |-> <<>>] :
     e \in RusbErrors,
     st \in {"active_config_descriptor", "open", "detach_kernel_driver",
             "write_control"}}
    \cup {[res |-> Err(NotFound), stage |-> "interfaces", frame |-> <<>>]}
    \cup {[res |-> Ok(n), stage |-> "write_control", frame |-> buffer(msg)] :
            n \in WriteSizes}

RECURSIVE sum(_)
sum(d) == IF d = <<>> THEN 0 ELSE Head(d) + sum(Tail(d))

\* let devices = self.context.devices()?;  (listing succeeds)
DevicesOk ==
  /\ pc = "start"
  /\ devices' = [tag |-> "Ok", list |-> bus]
  /\ pc' = "iter"
  /\ UNCHANGED <<message, buf, cmd, bus, pos, written, results, received, ret>>

\* let devices = self.context.devices()?;  (listing fails, ? returns)
DevicesErr ==
  /\ pc = "start"
  /\ \E e \in RusbErrors :
       /\ devices' = Err(e)
       /\ ret' = Err(BlinkErrorFrom(e))
  /\ pc' = "done"
  /\ UNCHANGED <<message, buf, cmd, bus, pos, written, results, received>>

\* .filter(is_blinker): a device that is no blink(1) is passed over
FilterSkip ==
  /\ pc = "iter"
  /\ pos <= Len(devices.list)
  /\ ~is_blinker(devices.list[pos])
  /\ pos' = pos + 1
  /\ UNCHANGED <<message, buf, cmd, bus, devices, pc, written, results,
                 received, ret>>

SendDevice_swallow ==
  /\ pc = "iter"
  /\ pos <= Len(devices.list)
  /\ is_blinker(devices.list[pos])
  /\ \E o \in send(devices.list[pos], cmd) :
       /\ results' = [results EXCEPT ![pos] = [res |-> o.res, stage |-> o.stage]]
       /\ received' = [received EXCEPT ![pos] = o.frame]
       /\ written' = IF o.res.tag = "Ok" THEN Append(written, o.res.n) ELSE written
       /\ pos' = pos + 1
       /\ UNCHANGED <<pc, ret>>
  /\ UNCHANGED <<message, buf, cmd, bus, devices>>

\* .map(|d| send(&d, &cmd)).collect::<Result<Vec<usize>, BlinkError>>():
\* an Ok is pushed and the iteration goes on, the first Err ends it
SendDevice ==
  /\ pc = "iter"
  /\ pos <= Len(devices.list)
  /\ is_blinker(devices.list[pos])
  /\ \E o \in send(devices.list[pos], cmd) :
       /\ results' = [results EXCEPT ![pos] = [res |-> o.res, stage |-> o.stage]]
       /\ received' = [received EXCEPT ![pos] = o.frame]
       /\ IF o.res.tag = "Ok"
            THEN /\ written' = Append(written, o.res.n)
                 /\ pos' = pos + 1
                 /\ UNCHANGED <<pc, ret>>
            ELSE /\ ret' = Err(o.res.err)
                 /\ pc' = "done"
                 /\ UNCHANGED <<written, pos>>
  /\ UNCHANGED <<message, buf, cmd, bus, devices>>

\* the iterator is exhausted: .map(|d| d.iter().sum())
Collect ==
  /\ pc = "iter"
  /\ pos > Len(devices.list)
  /\ ret' = Ok(sum(written))
  /\ pc' = "done"
  /\ UNCHANGED <<message, buf, cmd, bus, devices, pos, written, results,
                 received>>

BusLists == UNION {[1..n -> DeviceProfiles] : n \in 0..MaxDevices}

SendInit ==
  /\ message = NoMessage
  /\ buf = <<>>
  /\ cmd \in SendCommands
  /\ bus \in BusLists
  /\ devices = [tag |-> "None"]
  /\ pc = "start"
  /\ pos = 1
  /\ written = <<>>
  /\ results = [i \in 1..Len(bus) |-> [res |-> NotCalled, stage |-> "none"]]
  /\ received = [i \in 1..Len(bus) |-> <<>>]
  /\ ret = [tag |-> "None"]

SendNext ==
  \/ DevicesOk
  \/ DevicesErr
  \/ FilterSkip
  \/ SendDevice
  \/ Collect

SendSpec == SendInit /\ [][SendNext]_vars

(***************************************************************************)
(* Properties of Blinkers::send, checked under SendSpec                    *)
(***************************************************************************)
Matching == {i \in 1..Len(bus) : is_blinker(bus[i])}

RECURSIVE C9_Sum(_)
C9_Sum(k) ==
  IF k = 0
    THEN 0
    ELSE C9_Sum(k - 1) + (IF k \in Matching THEN results[k].res.n ELSE 0)

\* the devices are handled one at a time in enumeration order: a device is
\* sent to only after every matching device before it has succeeded
C9_InOrder ==
  \A i \in 1..Len(bus) :
    results[i].res.tag # "NotCalled" =>
      /\ i \in Matching
      /\ \A j \in Matching : j < i => results[j].res.tag = "Ok"

\* the outcome the claim describes for the per-device sends
C9_Outcome ==
  IF \A i \in Matching : results[i].res.tag = "Ok"
    THEN /\ ret = Ok(C9_Sum(Len(bus)))
         /\ Matching = {} => ret = Ok(0)
         /\ \A i \in Matching : received[i] = buffer(cmd)
    ELSE \E i \in Matching :
           /\ results[i].res.tag = "Err"
           /\ ret = Err(results[i].res.err)
           /\ \A j \in Matching :
                j < i => results[j].res.tag = "Ok" /\ received[j] = buffer(cmd)
           /\ \A j \in 1..Len(bus) :
                j > i =>
                  /\ results[j] = [res |-> NotCalled, stage |-> "none"]
                  /\ received[j] = <<>>

\* C9 as stated: send handles the matching devices one at a time in
\* enumeration order; if the per-device send succeeds for every matching
\* device it returns Ok with the sum of the bytes written (Ok(0) when no
\* device matches); otherwise it returns the error of the first device whose
\* send fails, nothing is attempted on a later device and the devices before
\* it have received the frame.
C9_SendOutcome == C9_InOrder /\ (pc = "done" => C9_Outcome)

\* C9 amended: the above holds whenever listing the devices succeeds; when
\* the listing fails send returns that error wrapped as a BlinkError and
\* attempts no transmission.
C9_SendOutcomeListed ==
  /\ C9_InOrder
  /\ (pc = "done" /\ devices.tag = "Ok") => C9_Outcome
  /\ (pc = "done" /\ devices.tag = "Err") =>
       /\ ret = Err(BlinkErrorFrom(devices.err))
       /\ \A i \in 1..Len(bus) :
            /\ results[i] = [res |-> NotCalled, stage |-> "none"]
            /\ received[i] = <<>>

C9_Witness ==
  /\ pc = "done"
  /\ devices.tag = "Ok"
  /\ Len(bus) = 3
  /\ Matching = {1, 2, 3}
  /\ results[1].res = Ok(8)
  /\ received[1] = buffer(cmd)
  /\ results[2].res.tag = "Err"
  /\ results[2].stage = "write_control"
  /\ ret = Err(results[2].res.err)
  /\ results[3].res = NotCalled

====
